---- MODULE Spec2Model ----
(***************************************************************************)
(* Model of the "krew upgrade" command (cmd/krew/cmd/upgrade.go): the      *)
(* pre-flight index refresh (PreRunE), the target-set resolution and the   *)
(* batch loop of RunE with its two error-tolerance modes.                  *)
(*                                                                         *)
(* Everything the command does to the outside world (collaborator calls    *)
(* and lines written to stderr) is appended, in program order, to `trace`. *)
(* Collaborator results are inputs, chosen freely at every call.           *)
(***************************************************************************)
EXTENDS Integers, Sequences, FiniteSets, TLC

\* ------------------------------------------------------------------ bounds
MaxLen == 3                      \* longest argument list / installed set

Names == {"a", "b", "c"}         \* plugin names

\* ------------------------------------------------- collaborator results
NoErr == "nil"                   \* a nil error returned by a collaborator
ErrIsAlreadyUpgraded == "already"
LoadResults == {NoErr, "notfound", "io"}
UpgradeResults == {NoErr, ErrIsAlreadyUpgraded, "fail"}
ListResults == {NoErr, "fail"}
RefreshResults == {NoErr, "fail"}

VARIABLES
    args,            \* the command's positional arguments
    noUpdateIndex,   \* value of --no-update-index
    pc,              \* "prerun", "resolve", "loop", "done"
    pluginNames,     \* the resolved target list
    ignoreUpgraded,
    skipErrors,
    nErrors,
    i,               \* 1-based position of the range loop over pluginNames
    ret,             \* error returned by the command (Nil while running)
    trace            \* collaborator calls and stderr lines, in order

vars == <<args, noUpdateIndex, pc, pluginNames, ignoreUpgraded, skipErrors,
          nErrors, i, ret, trace>>

\* ---------------------------------------------------------------- errors
Nil == [msg |-> "nil", name |-> "", cause |-> ""]

\* errors.Wrap / errors.Wrapf / errors.Errorf: message, plugin named, cause
Wrapf(cause, msg, name) == [msg |-> msg, name |-> name, cause |-> cause]

\* one entry of the trace
Ev(ev, name, pos, res) == [ev |-> ev, name |-> name, pos |-> pos, res |-> res]

\* all sequences over S of length at most n
SeqsUpTo(S, n) == UNION {[1..k -> S] : k \in 0..n}

\* sequences without repetition: the iteration orders of a map's keys
Distinct(s) == \A j, k \in DOMAIN s : j # k => s[j] # s[k]

\* ------------------------------------------------------------- PreRunE
\* mutation: the flag test inverted
SkipRefresh_Inverted(flag) == ~flag

\* if *noUpdateIndex
SkipRefresh(flag) == flag

PreRunE ==
    /\ pc = "prerun"
    /\ IF SkipRefresh(noUpdateIndex)
       THEN /\ pc' = "resolve"
            /\ UNCHANGED <<ret, trace>>
       ELSE \E r \in RefreshResults :
              /\ trace' = Append(trace, Ev("RefreshIndex", "", 0, r))
              /\ IF r = NoErr
                 THEN pc' = "resolve" /\ ret' = ret
                 ELSE pc' = "done" /\ ret' = Wrapf(r, "ensureIndexUpdated failed", "")
    /\ UNCHANGED <<args, noUpdateIndex, pluginNames, ignoreUpgraded,
                   skipErrors, nErrors, i>>

\* ---------------------------------------------- RunE: target-set resolver
\* mutation: the enumeration error is dropped
EnumReturn_Ignored(err) == Nil

\* error returned when ListInstalledPlugins fails
EnumReturn(err) ==
    IF err # NoErr THEN Wrapf(err, "failed to find all installed versions", "")
    ELSE Nil

\* mutation: skipErrors is not set on the all-plugins branch
ResolveMode_Half(a) ==
    IF Len(a) = 0
    THEN [ignoreUpgraded |-> TRUE, skipErrors |-> FALSE]
    ELSE [ignoreUpgraded |-> FALSE, skipErrors |-> FALSE]

\* the two flags, as assigned on each branch of `if len(args) == 0`
ResolveMode(a) ==
    IF Len(a) = 0
    THEN [ignoreUpgraded |-> TRUE, skipErrors |-> TRUE]
    ELSE [ignoreUpgraded |-> FALSE, skipErrors |-> FALSE]

\* mutation: the arguments are appended to the target list twice
ExplicitTargets_Doubled(a) == a \o a

\* mutation: the arguments are taken in reverse order
ExplicitTargets_Reversed(a) == [k \in DOMAIN a |-> a[Len(a) + 1 - k]]

\* pluginNames = args
ExplicitTargets(a) == a

Resolve ==
    /\ pc = "resolve"
    /\ IF Len(args) = 0
       THEN \E lres \in ListResults, order \in SeqsUpTo(Names, MaxLen) :
              /\ Distinct(order)
              /\ trace' = Append(trace, Ev("ListInstalled", "", 0, lres))
              /\ IF EnumReturn(lres) # Nil
                 THEN /\ ret' = EnumReturn(lres)
                      /\ pc' = "done"
                      /\ UNCHANGED <<pluginNames, ignoreUpgraded, skipErrors,
                                     nErrors, i>>
                 ELSE /\ pluginNames' = (IF lres = NoErr THEN order ELSE <<>>)
                      /\ ignoreUpgraded' = ResolveMode(args).ignoreUpgraded
                      /\ skipErrors' = ResolveMode(args).skipErrors
                      /\ nErrors' = 0
                      /\ i' = 1
                      /\ pc' = "loop"
                      /\ ret' = ret
       ELSE /\ pluginNames' = ExplicitTargets(args)
            /\ ignoreUpgraded' = ResolveMode(args).ignoreUpgraded
            /\ skipErrors' = ResolveMode(args).skipErrors
            /\ nErrors' = 0
            /\ i' = 1
            /\ pc' = "loop"
            /\ UNCHANGED <<ret, trace>>
    /\ UNCHANGED <<args, noUpdateIndex>>

\* ---------------------------------------------------- RunE: batch loop
\* indexscanner.LoadPluginByName: the manifest of `name`, or an error
LoadPluginByName(name, lres) ==
    [plugin |-> [Name |-> IF lres = NoErr THEN name ELSE ""], err |-> lres]

IsNotExist(err) == err = "notfound"

\* mutation: the returned errors do not name the plugin
LoadFailureReturn_Unnamed(name, err, skip) ==
    IF ~IsNotExist(err)
    THEN Wrapf(err, "failed to load the plugin manifest for plugin", "")
    ELSE IF ~skip
    THEN Wrapf("", "plugin does not exist in the plugin index", "")
    ELSE Nil

\* mutation: NotFound is fatal whatever skipErrors says
LoadFailureReturn_NoSkip(name, err, skip) ==
    IF ~IsNotExist(err)
    THEN Wrapf(err, "failed to load the plugin manifest for plugin", name)
    ELSE Wrapf("", "plugin does not exist in the plugin index", name)

\* mutation: skipErrors is tested before the kind of the lookup error
LoadFailureReturn_TolerateAll(name, err, skip) ==
    IF skip THEN Nil
    ELSE IF ~IsNotExist(err)
    THEN Wrapf(err, "failed to load the plugin manifest for plugin", name)
    ELSE Wrapf("", "plugin does not exist in the plugin index", name)

\* the `if err != nil` block after the lookup: the error returned, or Nil
\* when the loop body goes on
LoadFailureReturn(name, err, skip) ==
    IF ~IsNotExist(err)
    THEN Wrapf(err, "failed to load the plugin manifest for plugin", name)
    ELSE IF ~skip
    THEN Wrapf("", "plugin does not exist in the plugin index", name)
    ELSE Nil

\* mutation: the ignoreUpgraded test inverted
AlreadySkipped_Inverted(ign, err) == ~ign /\ err = ErrIsAlreadyUpgraded

\* ignoreUpgraded && err == installation.ErrIsAlreadyUpgraded
AlreadySkipped(ign, err) == ign /\ err = ErrIsAlreadyUpgraded

\* mutation: the error test is dropped, every pass ends as a success
CountsAsError_Never(err) == FALSE

\* if err != nil { nErrors++ ...
CountsAsError(err) == err # NoErr

\* mutation: every failure is tolerated
UpgradeFailureReturn_AlwaysSkip(name, err, skip) == Nil

\* mutation: no failure is tolerated
UpgradeFailureReturn_NeverSkip(name, err, skip) ==
    Wrapf(err, "failed to upgrade plugin", name)

\* the tail of the `if err != nil` block: Nil when the failure is tolerated
UpgradeFailureReturn(name, err, skip) ==
    IF skip THEN Nil ELSE Wrapf(err, "failed to upgrade plugin", name)

\* mutation: the `continue` after the skip line is missing, so the pass
\* falls into the `if err != nil` block
LoopBody_NoContinue(name, pos, lres, ures, ign, skip, n) ==
    LET ld     == LoadPluginByName(name, lres)
        evLoad == <<Ev("LoadManifest", name, pos, lres)>>
    IN
    IF ld.err # NoErr /\ LoadFailureReturn(name, ld.err, skip) # Nil
    THEN [events |-> evLoad, nErrors |-> n,
          ret |-> LoadFailureReturn(name, ld.err, skip)]
    ELSE
      LET err == IF ld.err = NoErr THEN ures ELSE ld.err
          ev2 == IF ld.err = NoErr
                 THEN evLoad \o <<Ev("Upgrading", name, pos, ""),
                                  Ev("Upgrade", name, pos, ures)>>
                 ELSE evLoad
          ev3 == IF ld.err = NoErr /\ AlreadySkipped(ign, err)
                 THEN Append(ev2, Ev("Skipping", name, pos, ""))
                 ELSE ev2
      IN
      IF CountsAsError(err)
      THEN IF UpgradeFailureReturn(name, err, skip) = Nil
           THEN [events |-> Append(ev3, Ev("Warning", name, pos, err)),
                 nErrors |-> n + 1, ret |-> Nil]
           ELSE [events |-> ev3, nErrors |-> n + 1,
                 ret |-> UpgradeFailureReturn(name, err, skip)]
      ELSE [events |-> ev3 \o <<Ev("Upgraded", name, pos, ""),
                                Ev("Notice", ld.plugin.Name, pos, "")>>,
            nErrors |-> n, ret |-> Nil]

\* One pass through the body of `for _, name := range pluginNames`.
\* lres and ures are what LoadPluginByName and Upgrade return in this pass.
LoopBody(name, pos, lres, ures, ign, skip, n) ==
    LET ld     == LoadPluginByName(name, lres)
        evLoad == <<Ev("LoadManifest", name, pos, lres)>>
    IN
    IF ld.err # NoErr /\ LoadFailureReturn(name, ld.err, skip) # Nil
    THEN [events |-> evLoad, nErrors |-> n,
          ret |-> LoadFailureReturn(name, ld.err, skip)]
    ELSE
      LET err == IF ld.err = NoErr THEN ures ELSE ld.err
          ev2 == IF ld.err = NoErr
                 THEN evLoad \o <<Ev("Upgrading", name, pos, ""),
                                  Ev("Upgrade", name, pos, ures)>>
                 ELSE evLoad
      IN
      IF ld.err = NoErr /\ AlreadySkipped(ign, err)
      THEN [events |-> Append(ev2, Ev("Skipping", name, pos, "")),
            nErrors |-> n, ret |-> Nil]
      ELSE IF CountsAsError(err)
      THEN IF UpgradeFailureReturn(name, err, skip) = Nil
           THEN [events |-> Append(ev2, Ev("Warning", name, pos, err)),
                 nErrors |-> n + 1, ret |-> Nil]
           ELSE [events |-> ev2, nErrors |-> n + 1,
                 ret |-> UpgradeFailureReturn(name, err, skip)]
      ELSE [events |-> ev2 \o <<Ev("Upgraded", name, pos, ""),
                                Ev("Notice", ld.plugin.Name, pos, "")>>,
            nErrors |-> n, ret |-> Nil]

\* mutation: a position whose failure was tolerated is tried a second time
Iterate_Retry ==
    /\ pc = "loop"
    /\ i <= Len(pluginNames)
    /\ \E lres \in LoadResults, ures \in UpgradeResults :
         LET r == LoopBody(pluginNames[i], i, lres, ures,
                           ignoreUpgraded, skipErrors, nErrors)
             first == \A j \in DOMAIN trace : trace[j].pos # i
         IN /\ trace' = trace \o r.events
            /\ nErrors' = r.nErrors
            /\ ret' = r.ret
            /\ IF r.ret = Nil
               THEN /\ pc' = "loop"
                    /\ i' = (IF r.nErrors > nErrors /\ first THEN i ELSE i + 1)
               ELSE pc' = "done" /\ i' = i
    /\ UNCHANGED <<args, noUpdateIndex, pluginNames, ignoreUpgraded, skipErrors>>

Iterate ==
    /\ pc = "loop"
    /\ i <= Len(pluginNames)
    /\ \E lres \in LoadResults, ures \in UpgradeResults :
         LET r == LoopBody(pluginNames[i], i, lres, ures,
                           ignoreUpgraded, skipErrors, nErrors)
         IN /\ trace' = trace \o r.events
            /\ nErrors' = r.nErrors
            /\ ret' = r.ret
            /\ IF r.ret = Nil
               THEN pc' = "loop" /\ i' = i + 1
               ELSE pc' = "done" /\ i' = i
    /\ UNCHANGED <<args, noUpdateIndex, pluginNames, ignoreUpgraded, skipErrors>>

\* mutation: off-by-one in the comparison
SummaryDue_Always(n) == n >= 0

\* if nErrors > 0
SummaryDue(n) == n > 0

Finish ==
    /\ pc = "loop"
    /\ i > Len(pluginNames)
    /\ trace' = (IF SummaryDue(nErrors)
                 THEN Append(trace, Ev("Summary", "", 0, ""))
                 ELSE trace)
    /\ ret' = Nil
    /\ pc' = "done"
    /\ UNCHANGED <<args, noUpdateIndex, pluginNames, ignoreUpgraded,
                   skipErrors, nErrors, i>>

\* ------------------------------------------------------- specification
Init ==
    /\ args \in SeqsUpTo(Names, MaxLen)
    /\ noUpdateIndex \in BOOLEAN
    /\ pc = "prerun"
    /\ pluginNames = <<>>
    /\ ignoreUpgraded = FALSE
    /\ skipErrors = FALSE
    /\ nErrors = 0
    /\ i = 0
    /\ ret = Nil
    /\ trace = <<>>

Next == PreRunE \/ Resolve \/ Iterate \/ Finish

Spec == Init /\ [][Next]_vars

\* Every collaborator call returns and the program is single-threaded, so
\* the command keeps taking its next step while it has one.
FairSpec == Spec /\ WF_vars(Next)

\* ------------------------------------------------------ trace vocabulary
Idx == DOMAIN trace
Has(ev, res) == \E j \in Idx : trace[j].ev = ev /\ trace[j].res = res
Count(ev, res) == Cardinality({j \in Idx : trace[j].ev = ev /\ trace[j].res = res})
LineKinds == {"Upgrading", "Upgraded", "Skipping", "Warning"}
AllMode == Len(args) = 0
\* the run got past PreRunE and the resolver, so the batch loop was entered
Entered == pc = "loop" \/ (pc = "done" /\ ~Has("RefreshIndex", "fail")
                                     /\ ~Has("ListInstalled", "fail"))
\* positions of the target list whose loop body has run
Visited == {trace[j].pos : j \in {k \in Idx : trace[k].ev = "LoadManifest"}}
\* the part of the trace appended by the current step
NewEvents == SubSeq(trace', Len(trace) + 1, Len(trace'))
StepHas(ev, res) == \E j \in (Len(trace) + 1)..Len(trace') :
                        trace'[j].ev = ev /\ trace'[j].res = res

TypeOK ==
    /\ args \in SeqsUpTo(Names, MaxLen)
    /\ noUpdateIndex \in BOOLEAN
    /\ pc \in {"prerun", "resolve", "loop", "done"}
    /\ pluginNames \in SeqsUpTo(Names, MaxLen)
    /\ ignoreUpgraded \in BOOLEAN /\ skipErrors \in BOOLEAN
    /\ nErrors \in 0..MaxLen
    /\ i \in 0..(MaxLen + 1)

\* ------------------------------------------------------------- claims

\* C1: in all-plugins mode, as long as no manifest lookup failed with a
\* non-NotFound error, a NotFound lookup or a generic upgrade failure never
\* halts the loop (the run is still in the loop, or completed with every
\* position of the target list visited), and the failure counter equals the
\* number of NotFound lookups plus the number of generic upgrade failures.
C1_ToleratedNeverHalts ==
    (AllMode /\ Entered /\ ~Has("LoadManifest", "io")) =>
        /\ nErrors = Count("LoadManifest", "notfound") + Count("Upgrade", "fail")
        /\ ret = Nil
        /\ pc = "loop" => Visited = 1..(i - 1)
        /\ pc = "done" => Visited = 1..Len(pluginNames)

C1_Witness ==
    /\ AllMode /\ pc = "done" /\ nErrors = 2
    /\ \E j, k \in Idx : /\ j < k
                         /\ trace[j].ev = "LoadManifest" /\ trace[j].res = "notfound"
                         /\ trace[k].ev = "Upgrade" /\ trace[k].res = "fail"
    /\ trace[Len(trace) - 1].ev = "Notice"

\* C2: in explicit-names mode a NotFound lookup, an AlreadyCurrent result or
\* a generic upgrade failure is the last thing the run does: the run has
\* returned a non-nil error naming that plugin and the trace has no later
\* lookup, upgrade request, line or notice.
Halting(e) ==
    \/ e.ev = "LoadManifest" /\ e.res = "notfound"
    \/ e.ev = "Upgrade" /\ e.res \in {ErrIsAlreadyUpgraded, "fail"}

C2_ExplicitFirstFailureHalts ==
    ~AllMode =>
        \A j \in Idx : Halting(trace[j]) =>
            /\ j = Len(trace)
            /\ pc = "done"
            /\ ret # Nil
            /\ ret.name = args[trace[j].pos]
            /\ trace[j].pos = i

C2_Witness ==
    /\ ~AllMode /\ pc = "done" /\ Len(args) = 3 /\ i = 2
    /\ Halting(trace[Len(trace)])
    /\ trace[Len(trace)].res = ErrIsAlreadyUpgraded
    /\ Has("Notice", "")

\* C3: in all-plugins mode a loop pass whose upgrade request reports
\* AlreadyCurrent leaves the failure counter and the (nil) result alone,
\* emits the start line and the skip line and nothing after them, fires no
\* security notice, and moves on to the next position.
C3_AlreadyCurrentTolerated ==
    [][(AllMode /\ StepHas("Upgrade", ErrIsAlreadyUpgraded)) =>
          /\ nErrors' = nErrors
          /\ ret' = Nil
          /\ pc' = "loop" /\ i' = i + 1
          /\ NewEvents = <<Ev("LoadManifest", pluginNames[i], i, NoErr),
                           Ev("Upgrading", pluginNames[i], i, ""),
                           Ev("Upgrade", pluginNames[i], i, ErrIsAlreadyUpgraded),
                           Ev("Skipping", pluginNames[i], i, "")>>]_vars

C3_Witness ==
    /\ AllMode /\ pc = "done" /\ ret = Nil /\ nErrors = 0
    /\ Len(trace) > 5
    /\ trace[4].ev = "Upgrade" /\ trace[4].res = ErrIsAlreadyUpgraded
    /\ trace[5].ev = "Skipping"
    /\ trace[6].ev = "LoadManifest"

\* C4: the summary line is in the output exactly when the run has returned
\* nil with a positive failure counter; it is never there while the run is
\* going on or after an error was returned, it occurs at most once and it
\* is the last thing written.
SummaryAt == {j \in Idx : trace[j].ev = "Summary"}

C4_SummaryIff ==
    /\ (SummaryAt # {}) <=> (pc = "done" /\ ret = Nil /\ nErrors > 0)
    /\ SummaryAt \subseteq {Len(trace)}

C4_Witness ==
    /\ pc = "done" /\ SummaryAt # {} /\ nErrors = 1
    /\ Has("Warning", "fail") /\ Has("Upgraded", "")

\* a fatal run with a positive failure counter prints no summary
C4_WitnessFatal ==
    pc = "done" /\ ret # Nil /\ nErrors > 0 /\ SummaryAt = {}

\* C5: an all-plugins run in which the refresh, the enumeration and every
\* manifest lookup either succeeded or reported NotFound returns nil,
\* whatever mix of NotFound, AlreadyCurrent and generic failures occurred.
C5_ToleratedReturnsNil ==
    (AllMode /\ pc = "done" /\ ~Has("RefreshIndex", "fail")
             /\ ~Has("ListInstalled", "fail") /\ ~Has("LoadManifest", "io"))
        => ret = Nil

C5_Witness ==
    /\ AllMode /\ pc = "done" /\ ret = Nil /\ nErrors = 2
    /\ Has("LoadManifest", "notfound")
    /\ Has("Upgrade", ErrIsAlreadyUpgraded)
    /\ Has("Upgrade", "fail")

\* C6: the two flags are equal in every state; once the resolver has
\* produced a target list both are true exactly when there are no
\* arguments, whatever the installed set is; no step of the batch loop
\* changes them.
C6_ModeFromArgs ==
    /\ [](ignoreUpgraded = skipErrors)
    /\ [](Entered => (skipErrors = (Len(args) = 0)
                      /\ ignoreUpgraded = (Len(args) = 0)))
    /\ [][pc = "loop" => UNCHANGED <<ignoreUpgraded, skipErrors>>]_vars

\* all-plugins mode over an empty installed set
C6_Witness ==
    /\ AllMode /\ pc = "done" /\ Has("ListInstalled", NoErr)
    /\ pluginNames = <<>> /\ skipErrors /\ ignoreUpgraded

C6_WitnessExplicit ==
    ~AllMode /\ pc = "done" /\ i = 3 /\ ~skipErrors /\ ~ignoreUpgraded

\* C7: a manifest lookup failing for a reason other than NotFound ends the
\* run in both modes: the pass that made the lookup does nothing else (no
\* start line, upgrade request, warning or summary), leaves the failure
\* counter alone and returns an error naming the plugin; the lookup stays
\* the last entry of the trace.
C7_LookupFaultFatal ==
    /\ [](\A j \in Idx : (trace[j].ev = "LoadManifest" /\ trace[j].res = "io") =>
              /\ j = Len(trace)
              /\ pc = "done"
              /\ ret = Wrapf("io", "failed to load the plugin manifest for plugin",
                             pluginNames[i]))
    /\ [][StepHas("LoadManifest", "io") =>
              /\ nErrors' = nErrors
              /\ NewEvents = <<Ev("LoadManifest", pluginNames[i], i, "io")>>]_vars

C7_Witness ==
    /\ AllMode /\ pc = "done" /\ Has("LoadManifest", "io")
    /\ i = 2 /\ Len(pluginNames) = 3 /\ nErrors = 1

C7_WitnessExplicit ==
    ~AllMode /\ pc = "done" /\ Has("LoadManifest", "io") /\ i = 2 /\ Len(args) = 3

\* C8: every per-plugin line carries the name at its position of the target
\* list, positions never go backwards along the output, the positions that
\* have lines are an initial segment of the list, and in explicit-names mode
\* the target list is the argument list.
LineAt == {j \in Idx : trace[j].ev \in LineKinds}

C8_ReportedInOrder ==
    /\ \A j \in LineAt : /\ trace[j].pos \in DOMAIN pluginNames
                         /\ trace[j].name = pluginNames[trace[j].pos]
    /\ \A j, k \in LineAt : j < k => trace[j].pos <= trace[k].pos
    /\ \A j \in LineAt : \A p \in 1..trace[j].pos :
           \E k \in LineAt : trace[k].pos = p
    /\ (~AllMode /\ Entered) => pluginNames = args

C8_Witness ==
    /\ ~AllMode /\ pc = "done" /\ ret = Nil
    /\ args = <<"b", "a", "b">>
    /\ Cardinality(LineAt) = 6

C8_WitnessAll ==
    /\ AllMode /\ pc = "done" /\ Len(pluginNames) = 3
    /\ Has("Warning", "notfound") /\ Has("Skipping", "") /\ Has("Upgraded", "")

\* C9: with --no-update-index the refresh is never invoked and PreRunE hands
\* over to RunE; without it the refresh is the first thing done, and when
\* it fails the command has returned an error having done nothing else.
C9_PreflightRefresh ==
    /\ noUpdateIndex =>
          /\ \A j \in Idx : trace[j].ev # "RefreshIndex"
          /\ pc = "done" => (Has("ListInstalled", "fail") \/ i > 0)
    /\ (~noUpdateIndex /\ pc # "prerun") =>
          (trace # <<>> /\ trace[1].ev = "RefreshIndex")
    /\ Has("RefreshIndex", "fail") =>
          /\ trace = <<Ev("RefreshIndex", "", 0, "fail")>>
          /\ pc = "done" /\ ret # Nil
          /\ pluginNames = <<>> /\ i = 0 /\ nErrors = 0

C9_Witness ==
    ~noUpdateIndex /\ pc = "done" /\ Has("RefreshIndex", "fail") /\ Len(args) = 2

C9_WitnessSkip ==
    noUpdateIndex /\ pc = "done" /\ Has("Upgraded", "") /\ ret = Nil

\* C10: when the enumeration of installed receipts fails, the run has
\* returned the "failed to find all installed versions" error; the
\* enumeration is the last entry of the trace, which holds no lookup,
\* upgrade request, line or summary, and the loop state is untouched.
C10_EnumerationFatal ==
    Has("ListInstalled", "fail") =>
        /\ AllMode
        /\ pc = "done"
        /\ ret = Wrapf("fail", "failed to find all installed versions", "")
        /\ trace[Len(trace)].ev = "ListInstalled"
        /\ \A j \in Idx : trace[j].ev \in {"RefreshIndex", "ListInstalled"}
        /\ nErrors = 0 /\ i = 0 /\ pluginNames = <<>>

C10_Witness ==
    /\ pc = "done" /\ Has("ListInstalled", "fail")
    /\ Has("RefreshIndex", NoErr) /\ Len(trace) = 2

\* C11: when the run has returned an error from the loop body at position
\* i, exactly the positions 1..i were visited, every earlier position has
\* its outcome line, every successful upgrade request is followed at once by
\* its "Upgraded plugin" line and its security notice, the error names the
\* plugin at position i, and no step ever removes or rewrites an entry of
\* the trace.
Aborted == pc = "done" /\ ret # Nil /\ i > 0
OutcomeKinds == {"Upgraded", "Skipping", "Warning"}
OutcomeLines(p) == {j \in Idx : trace[j].ev \in OutcomeKinds /\ trace[j].pos = p}

C11_EarlierEffectsStand ==
    /\ [](Aborted =>
            /\ Visited = 1..i
            /\ ret.name = pluginNames[i]
            /\ \A p \in 1..(i - 1) : OutcomeLines(p) # {}
            /\ \A j \in Idx : (trace[j].ev = "Upgrade" /\ trace[j].res = NoErr) =>
                  /\ j + 2 <= Len(trace)
                  /\ trace[j + 1] = Ev("Upgraded", pluginNames[trace[j].pos],
                                       trace[j].pos, "")
                  /\ trace[j + 2].ev = "Notice"
                  /\ trace[j + 2].pos = trace[j].pos)
    /\ [][Len(trace') >= Len(trace)
          /\ SubSeq(trace', 1, Len(trace)) = trace]_vars

\* `upgrade foo bar`: foo upgraded, bar not in the index
C11_Witness ==
    /\ Aborted /\ ~AllMode /\ i = 2
    /\ trace[Len(trace)] = Ev("LoadManifest", args[2], 2, "notfound")
    /\ Has("Notice", "") /\ Has("Upgraded", "")

\* C12 (as stated): every position whose loop body ran has exactly one
\* outcome line (upgraded, skip or warning), a fatal position included.
C12_OneLinePerProcessed ==
    \A p \in Visited : Cardinality(OutcomeLines(p)) = 1

\* C12 (amended): a position whose pass returned an error has no outcome
\* line; every other visited position has exactly one.
C12_OneLineUnlessFatal ==
    \A p \in Visited :
        Cardinality(OutcomeLines(p)) = (IF Aborted /\ p = i THEN 0 ELSE 1)

C12_Witness ==
    /\ Aborted /\ AllMode /\ i = 3
    /\ Has("Warning", "notfound") /\ Has("Skipping", "")
    /\ OutcomeLines(3) = {}

\* C13 (as stated): no plugin name is looked up more than once.
LoadsOf(n) == {j \in Idx : trace[j].ev = "LoadManifest" /\ trace[j].name = n}
Occurrences(n) == {p \in DOMAIN pluginNames : pluginNames[p] = n}

C13_OneLookupPerName ==
    \A n \in Names : Cardinality(LoadsOf(n)) <= 1

\* C13 (amended): every position of the target list is looked up at most
\* once, so a name is looked up at most as often as it occurs in the
\* target list: at most once in all-plugins mode, and at most once per
\* occurrence in the argument list in explicit-names mode.
C13_OneLookupPerPosition ==
    /\ \A p \in DOMAIN pluginNames :
          Cardinality({j \in Idx : trace[j].ev = "LoadManifest"
                                   /\ trace[j].pos = p}) <= 1
    /\ \A n \in Names :
          /\ Cardinality(LoadsOf(n)) <= Cardinality(Occurrences(n))
          /\ AllMode => Cardinality(LoadsOf(n)) <= 1
          /\ ~AllMode => Cardinality(LoadsOf(n))
                           <= Cardinality({p \in DOMAIN args : args[p] = n})

C13_Witness ==
    /\ ~AllMode /\ pc = "done" /\ args = <<"a", "b", "a">>
    /\ Cardinality(LoadsOf("a")) = 2

\* C14: the security notices are exactly the entries that follow an
\* "Upgraded plugin" line: every notice comes right after the "Upgraded
\* plugin" line of the same name and position, which comes right after a
\* successful upgrade request; every "Upgraded plugin" line is followed by
\* its notice; a position with a NotFound lookup, an AlreadyCurrent result
\* or a failed upgrade has no notice.
NoticeAt == {j \in Idx : trace[j].ev = "Notice"}
UpgradedAt == {j \in Idx : trace[j].ev = "Upgraded"}

C14_NoticeIffUpgraded ==
    /\ Cardinality(NoticeAt) = Cardinality(UpgradedAt)
    /\ Cardinality(NoticeAt) = Count("Upgrade", NoErr)
    /\ \A j \in NoticeAt :
          /\ j > 2
          /\ trace[j - 1] = Ev("Upgraded", trace[j].name, trace[j].pos, "")
          /\ trace[j - 2] = Ev("Upgrade", trace[j].name, trace[j].pos, NoErr)
          /\ trace[j].name = pluginNames[trace[j].pos]
    /\ \A j \in UpgradedAt : j < Len(trace) /\ trace[j + 1].ev = "Notice"
    /\ \A j \in Idx : (Halting(trace[j]) \/ trace[j].res \in {"io", "fail"}) =>
          \A k \in NoticeAt : trace[k].pos # trace[j].pos

C14_Witness ==
    /\ AllMode /\ pc = "done" /\ Len(pluginNames) = 3
    /\ Cardinality(NoticeAt) = 1
    /\ Has("Upgrade", "fail") /\ Has("Upgrade", ErrIsAlreadyUpgraded)

\* C15: in explicit-names mode a pass whose upgrade request reports
\* AlreadyCurrent and a pass whose request fails otherwise do the same:
\* the run ends there with the failure counter one higher, the pass has
\* written the start line and nothing after the request, and the returned
\* error is "failed to upgrade plugin" with the plugin's name around the
\* underlying error.  From any state of the loop the two continuations
\* differ in nothing but the underlying error.
Kinds(es) == [k \in DOMAIN es |-> es[k].ev]
FailedRes == {ErrIsAlreadyUpgraded, "fail"}

C15_AlreadyLikeFailure ==
    /\ [][(~AllMode /\ \E e \in FailedRes : StepHas("Upgrade", e)) =>
             /\ pc' = "done" /\ i' = i
             /\ nErrors' = nErrors + 1
             /\ Kinds(NewEvents) = <<"LoadManifest", "Upgrading", "Upgrade">>
             /\ ret' = Wrapf(trace'[Len(trace')].res, "failed to upgrade plugin",
                            args[i])]_vars
    /\ []((~AllMode /\ pc = "loop" /\ i <= Len(pluginNames)) =>
            LET A == LoopBody(pluginNames[i], i, NoErr, ErrIsAlreadyUpgraded,
                              ignoreUpgraded, skipErrors, nErrors)
                F == LoopBody(pluginNames[i], i, NoErr, "fail",
                              ignoreUpgraded, skipErrors, nErrors)
            IN /\ A.nErrors = F.nErrors
               /\ Kinds(A.events) = Kinds(F.events)
               /\ A.ret # Nil /\ F.ret # Nil
               /\ A.ret.msg = F.ret.msg /\ A.ret.name = F.ret.name
               /\ A.ret.cause = ErrIsAlreadyUpgraded /\ F.ret.cause = "fail")

C15_Witness ==
    /\ ~AllMode /\ pc = "done" /\ i = 2 /\ nErrors = 1
    /\ trace[Len(trace)] = Ev("Upgrade", args[2], 2, ErrIsAlreadyUpgraded)
    /\ ret.msg = "failed to upgrade plugin"
    /\ Has("Notice", "")

C15_WitnessFail ==
    /\ ~AllMode /\ pc = "done" /\ i = 2 /\ nErrors = 1
    /\ trace[Len(trace)] = Ev("Upgrade", args[2], 2, "fail")
    /\ ret.msg = "failed to upgrade plugin"
    /\ Has("Notice", "")

\* C16: every run ends; the loop position only moves forward by one, each
\* position is looked up at most once and upgraded at most once, so there
\* are at most len(target list) lookups and upgrade requests; the run ends
\* after the last position or at the first error.
CallsAt(ev, p) == {j \in Idx : trace[j].ev = ev /\ trace[j].pos = p}
CountEv(ev) == Cardinality({j \in Idx : trace[j].ev = ev})

C16_Terminates ==
    /\ <>(pc = "done")
    /\ [](/\ \A p \in 1..(MaxLen + 1) :
                /\ Cardinality(CallsAt("LoadManifest", p)) <= 1
                /\ Cardinality(CallsAt("Upgrade", p)) <= 1
          /\ CountEv("LoadManifest") <= Len(pluginNames)
          /\ CountEv("Upgrade") <= Len(pluginNames)
          /\ (pc = "done" /\ i > 0) =>
                IF ret = Nil THEN i = Len(pluginNames) + 1
                             ELSE i \in DOMAIN pluginNames)
    /\ [][pc = "loop" => (i' = i + 1 \/ (i' = i /\ pc' = "done"))]_vars

C16_Witness ==
    /\ pc = "done" /\ ret = Nil /\ Len(pluginNames) = 3 /\ i = 4
    /\ CountEv("LoadManifest") = 3 /\ CountEv("Upgrade") = 2 /\ nErrors = 2

\* C17: every upgrade request comes right after the start line of the
\* same name and position, which comes right after a successful lookup of
\* that position; a pass of all-plugins mode whose lookup reports NotFound
\* consists of the lookup and the warning line, and adds one to the
\* failure counter.
C17_UpgradeOnlyAfterLookup ==
    /\ [](\A j \in Idx : trace[j].ev = "Upgrade" =>
            /\ j > 2
            /\ trace[j - 1] = Ev("Upgrading", trace[j].name, trace[j].pos, "")
            /\ trace[j - 2] = Ev("LoadManifest", trace[j].name, trace[j].pos, NoErr))
    /\ [](\A j \in Idx : trace[j].ev = "Upgrading" =>
            j < Len(trace) /\ trace[j + 1].ev = "Upgrade")
    /\ [][(AllMode /\ StepHas("LoadManifest", "notfound")) =>
             /\ NewEvents = <<Ev("LoadManifest", pluginNames[i], i, "notfound"),
                              Ev("Warning", pluginNames[i], i, "notfound")>>
             /\ nErrors' = nErrors + 1
             /\ pc' = "loop" /\ i' = i + 1]_vars

C17_Witness ==
    /\ AllMode /\ pc = "done" /\ ret = Nil /\ Len(pluginNames) = 2
    /\ Kinds(trace) = <<"RefreshIndex", "ListInstalled", "LoadManifest", "Warning",
                        "LoadManifest", "Upgrading", "Upgrade", "Upgraded",
                        "Notice", "Summary">>

\* C18: an explicit-names run that has ended returned nil exactly when
\* every argument position had a successful lookup and a successful
\* upgrade; then the failure counter is 0 and there is one security notice
\* per argument; no explicit-names run ever writes the summary line.
C18_ExplicitNilIffAllUpgraded ==
    ~AllMode =>
        /\ pc = "done" =>
              /\ (ret = Nil) <=>
                    \A p \in DOMAIN args :
                        \E j \in Idx : trace[j] = Ev("Upgrade", args[p], p, NoErr)
              /\ ret = Nil => (nErrors = 0 /\ Cardinality(NoticeAt) = Len(args))
        /\ SummaryAt = {}

C18_Witness ==
    /\ ~AllMode /\ pc = "done" /\ ret = Nil /\ Len(args) = 3
    /\ Cardinality(NoticeAt) = 3

C18_WitnessFailed ==
    ~AllMode /\ pc = "done" /\ ret # Nil /\ nErrors = 1 /\ i = 3

\* C19: while the run has not returned an error, the positions processed
\* so far (i - 1) are the successful upgrade requests plus the
\* AlreadyCurrent skips plus the failure counter; the failure counter is
\* at most the number of positions processed and never decreases.
C19_OutcomesPartition ==
    /\ []((pc = "loop" \/ (pc = "done" /\ ret = Nil)) =>
            /\ i - 1 = Count("Upgrade", NoErr) + CountEv("Skipping") + nErrors
            /\ i - 1 = Cardinality(UpgradedAt) + CountEv("Skipping") + nErrors
            /\ i - 1 = Cardinality(Visited)
            /\ nErrors <= i - 1)
    /\ [][nErrors' >= nErrors]_vars

C19_Witness ==
    /\ AllMode /\ pc = "done" /\ ret = Nil /\ i = 4
    /\ Cardinality(UpgradedAt) = 1 /\ CountEv("Skipping") = 1 /\ nErrors = 1

====
